---------------------------- MODULE Spec2Model ----------------------------
(***************************************************************************)
(* Model of pkg/k8smanifest/verify_resource.go: VerifyResource (the        *)
(* verification orchestrator) and matchResourceWithManifest with its three *)
(* tiers directMatch, dryrunCreateMatch and dryrunApplyMatch.              *)
(*                                                                         *)
(* One call of VerifyResource is modelled.  The external collaborators     *)
(* (manifest fetcher, admission simulator, signature verifier, image       *)
(* extraction, provenance getter) answer nondeterministically; every call  *)
(* made to them is appended to the log `calls`.                            *)
(*                                                                         *)
(* A Go pointer is a sequence of length at most one: <<>> is nil and <<x>> *)
(* points to x.  A Go error is a string, "" being the nil error.           *)
(***************************************************************************)
EXTENDS Naturals, Sequences, FiniteSets, TLC

\* Largest number of candidate manifests the fetcher returns.
MaxCandidates == 2

defaultDryRunNamespace == "default"

(***************************************************************************)
(* Documents.  A tree node maps every dotted path to its value, Absent     *)
(* where the document has no such field.                                   *)
(***************************************************************************)
Absent == ""

CRDMaskPaths ==
    {"spec.names.kind", "spec.names.listKind", "spec.names.singular", "spec.names.plural"}

Paths ==
    {"kind", "metadata.name", "metadata.namespace", "spec.names.shortNames", "data.a"}
        \cup CRDMaskPaths

EmptyNode == [p \in Paths |-> Absent]

\* Serialized bytes: either they parse to `node`, or they do not parse.
Bytes(node) == [ok |-> TRUE, node |-> node]
Garbage == [ok |-> FALSE, node |-> EmptyNode]

\* mapnode.NewFromBytes / NewFromYamlBytes: the node and whether parsing failed.
NewFromBytes(b) == [node |-> b.node, failed |-> ~b.ok]

\* (*Node).Mask: a copy of the node without the masked paths.
Mask(node, keys) == [p \in Paths |-> IF p \in keys THEN Absent ELSE node[p]]

\* (*Node).Diff: the paths at which the two nodes differ.
Diff(n1, n2) == <<{p \in Paths : n1[p] # n2[p]}>>

\* (*DiffResult).Size, called on a non-nil diff.
Size(diff) == Cardinality(diff[1])

\* (*DiffResult).Filter: second result, the entries whose path is not ignored.
Filter(diff, fields) == <<diff[1] \ fields>>

NilDiff == <<>>

\* obj.GetNamespace / obj.GetKind / objNode.GetString
GetNamespace(o) == o["metadata.namespace"]
GetKind(o) == o["kind"]

(***************************************************************************)
(* Inputs.                                                                 *)
(***************************************************************************)
Kinds == {"CustomResourceDefinition", "ConfigMap"}

\* The kinds and namespaces of the live objects: a definition of a custom
\* resource without namespace (cluster-scoped) or with one, and a ConfigMap
\* in a namespace of its own or in the namespace named "default".
ObjectScopes ==
    {<<"CustomResourceDefinition", Absent>>, <<"CustomResourceDefinition", "ns1">>,
     <<"ConfigMap", "ns1">>, <<"ConfigMap", "default">>}

\* The live objects: a kind and a namespace, every other field "a".
Objects ==
    {[p \in Paths |-> IF p = "kind" THEN s[1]
                      ELSE IF p = "metadata.namespace" THEN s[2] ELSE "a"] :
        s \in ObjectScopes}

\* The value a document other than the live object has at a differing path.
Other(o, p) ==
    IF p = "kind" THEN CHOOSE k \in Kinds : k # o[p]
    ELSE IF o[p] = "b" THEN "c" ELSE "b"

\* The sets of paths at which a candidate or simulated document may differ
\* from the live object.
DiffPathSets ==
    {{}} \cup {{p} : p \in Paths \ {"kind"}}
         \cup {{"metadata.name", "data.a"}, {"spec.names.kind", "spec.names.shortNames"}}

\* The documents around a live object.
DocsOf(o) ==
    {[p \in Paths |-> IF p \in d THEN Other(o, p) ELSE o[p]] : d \in DiffPathSets}

BytesOf(o) == {Bytes(n) : n \in DocsOf(o)} \cup {Garbage}

\* An answer of the admission simulator: an error, or bytes.
Answers(bs) == {[err |-> TRUE, bytes |-> Garbage]} \cup {[err |-> FALSE, bytes |-> b] : b \in bs}

\* Candidate manifests the fetcher may return, as bytes.
ManifestsOf(o) ==
    {Bytes(n) : n \in {o} \cup {[o EXCEPT ![p] = Other(o, p)] :
                                   p \in {"data.a", "metadata.name", "spec.names.shortNames"}}}
        \cup {Garbage}

AllowedSigners == {"alice"}

\* The option bundles: every combination of ignore fields, dry-run namespace
\* override, apply-simulation toggle and provenance toggle without a skip
\* selector, and the bundles with a skip selector and no override.
Options ==
    {o \in [SkipObjects : {{}, {"ConfigMap"}},
            IgnoreFields : {{}, {"data.a"}},
            DryRunNamespace : {"", "sandbox"},
            CheckDryRunForApply : BOOLEAN,
            Provenance : BOOLEAN,
            Signers : {AllowedSigners}] :
        o.SkipObjects # {} => (o.DryRunNamespace = "" /\ ~o.Provenance)}

NilOption == <<>>


SigRefs == {"registry/manifest:sig"}

\* What the signature verifier answers when its call succeeds.
VerifyAnswers ==
    {[valid |-> v, signer |-> s, ts |-> IF v THEN <<0>> ELSE <<>>] :
        v \in BOOLEAN, s \in {"alice", "mallory"}}

\* What a nil *Node does when a method is called on it (mapnode is not part
\* of this file): the call faults, or it behaves as the empty node.
NilNodeOutcomes == {"panic", "empty"}

(***************************************************************************)
(* Policy evaluators of the option bundle.                                 *)
(***************************************************************************)
\* vo.SkipObjects.Match(obj): the skip selector lists kinds.
SkipObjectsMatch(skip, o) == GetKind(o) \in skip

\* vo.IgnoreFields.Match(obj): ok and the fields bound to this object.
IgnoreFieldsMatch(fields) == [ok |-> fields # {}, fields |-> fields]

\* vo.Signers.Match(signerName)
SignersMatch(signers, name) == name \in signers

(***************************************************************************)
(* matchResourceWithManifest: scope resolution, lines 172-180.             *)
(***************************************************************************)
clusterScope(o) == GetNamespace(o) = ""

\* Mutant: without an override the simulation runs in the object's namespace.
effectiveDryRunNamespace_own(o, dryRunNamespace) ==
    IF ~clusterScope(o) /\ dryRunNamespace = "" THEN GetNamespace(o)
    ELSE dryRunNamespace

\* Lines 177-179: the namespace handed to the tiers.
effectiveDryRunNamespace(o, dryRunNamespace) ==
    IF ~clusterScope(o) /\ dryRunNamespace = "" THEN defaultDryRunNamespace
    ELSE dryRunNamespace

isCRD(o) == GetKind(o) = "CustomResourceDefinition"

\* A call to an external collaborator, as logged.
Call(op, ns, cand) == [op |-> op, ns |-> ns, cand |-> cand]

\* What a tier function hands back, with the nodes and masks it used.
TierReturn(matched, d, e, cs, on, sn, om, sm, faulted) ==
    [matched |-> matched, diff |-> d, err |-> e, calls |-> cs,
     objNode |-> on, simNode |-> sn, objMask |-> om, simMask |-> sm,
     maskedObjNode |-> Mask(on, om), maskedSimNode |-> Mask(sn, sm),
     panic |-> faulted]

TierError(e, cs) ==
    TierReturn(FALSE, NilDiff, e, cs, EmptyNode, EmptyNode, {}, {}, FALSE)

TierPanic(cs) ==
    TierReturn(FALSE, NilDiff, "", cs, EmptyNode, EmptyNode, {}, {}, TRUE)

\* The tail of every tier function: diff the two masked nodes.
DiffMasked(on, sn, om, sm, cs) ==
    LET d == Diff(Mask(on, om), Mask(sn, sm))
    IN  IF d = NilDiff \/ Size(d) = 0
        THEN TierReturn(TRUE, NilDiff, "", cs, on, sn, om, sm, FALSE)
        ELSE TierReturn(FALSE, d, "", cs, on, sn, om, sm, FALSE)

directMatch(objBytes_, manifestBytes) ==
    LET o == NewFromBytes(objBytes_)
        m == NewFromBytes(manifestBytes)
    IN  IF o.failed THEN TierError("failed to initialize object node", <<>>)
        ELSE IF m.failed THEN TierError("failed to initialize manifest node", <<>>)
        ELSE DiffMasked(o.node, m.node, {}, {}, <<>>)

\* Mutant: metadata.name is left out of the mask.
dryrunCreateMask_noName(cs, crd) ==
    (IF ~cs THEN {"metadata.namespace"} ELSE {})
        \cup (IF crd THEN CRDMaskPaths ELSE {})

\* Mutant: spec.names.plural is left out of the mask.
dryrunCreateMask_noPlural(cs, crd) ==
    {"metadata.name"}
        \cup (IF ~cs THEN {"metadata.namespace"} ELSE {})
        \cup (IF crd THEN CRDMaskPaths \ {"spec.names.plural"} ELSE {})

\* The mask list built in dryrunCreateMatch.
dryrunCreateMask(cs, crd) ==
    {"metadata.name"}
        \cup (IF ~cs THEN {"metadata.namespace"} ELSE {})
        \cup (IF crd THEN CRDMaskPaths ELSE {})

\* sim is the admission simulator's answer to DryRunCreate: [err, bytes].
dryrunCreateMatch(objBytes_, manifestBytes, cs, crd, dryRunNamespace, cand, sim) ==
    LET o == NewFromBytes(objBytes_)
        m == NewFromBytes(manifestBytes)
        call == <<Call("DryRunCreate", IF cs THEN "" ELSE dryRunNamespace, cand)>>
        s == NewFromBytes(sim.bytes)
        mask == dryrunCreateMask(cs, crd)
    IN  IF o.failed THEN TierError("failed to initialize object node", <<>>)
        ELSE IF m.failed THEN TierError("failed to initialize manifest node", <<>>)
        ELSE IF sim.err
             THEN TierError("failed to dryrun with the found YAML in image", call)
        ELSE IF s.failed
             THEN TierError("failed to initialize dry-run-generated object node", call)
        ELSE DiffMasked(o.node, s.node, mask, mask, call)

\* Mutant: the namespace is not masked in the apply tier.
dryrunApplyMask_noNamespace(cs, crd) ==
    {"metadata.name"} \cup (IF crd THEN CRDMaskPaths ELSE {})

\* The mask list built in dryrunApplyMatch.
dryrunApplyMask(cs, crd) ==
    {"metadata.name"}
        \cup (IF ~cs THEN {"metadata.namespace"} ELSE {})
        \cup (IF crd THEN CRDMaskPaths ELSE {})

\* patch is the answer to GetApplyPatchBytes and sim the answer to DryRunCreate;
\* nilNode is what a method call on a nil node does.  The parse results of
\* the patched bytes and of the simulated bytes are not checked: a failed
\* parse leaves a nil node on which Mask is then called.
dryrunApplyMatch(objBytes_, manifestBytes, cs, crd, dryRunNamespace, cand, patch, sim, nilNode) ==
    LET o == NewFromBytes(objBytes_)
        objNamespace == GetNamespace(o.node)
        call1 == <<Call("GetApplyPatchBytes", objNamespace, cand)>>
        p == NewFromBytes(patch.bytes)
        call2 == Append(call1, Call("DryRunCreate", IF cs THEN "" ELSE dryRunNamespace, cand))
        s == NewFromBytes(sim.bytes)
        mask == dryrunApplyMask(cs, crd)
    IN  IF o.failed THEN TierError("failed to initialize object node", <<>>)
        ELSE IF patch.err THEN TierError("error during getting applied bytes", call1)
        ELSE IF p.failed /\ nilNode = "panic" THEN TierPanic(call1)
        ELSE IF sim.err THEN TierError("error during DryRunCreate for apply", call2)
        ELSE IF s.failed /\ nilNode = "panic" THEN TierPanic(call2)
        ELSE DiffMasked(o.node, s.node, mask, mask, call2)

\* Mutant: the ignore fields are not applied.
filterDiff_noFilter(r, fields) ==
    IF r.diff = NilDiff \/ Size(r.diff) = 0
    THEN [matched |-> TRUE, diff |-> NilDiff]
    ELSE [matched |-> r.matched, diff |-> r.diff]

\* After each tier: filter the diff by the ignore fields, an empty diff is a match.
filterDiff(r, fields) ==
    LET d == IF r.diff # NilDiff /\ fields # {} THEN Filter(r.diff, fields) ELSE r.diff
    IN  IF d = NilDiff \/ Size(d) = 0
        THEN [matched |-> TRUE, diff |-> NilDiff]
        ELSE [matched |-> r.matched, diff |-> d]

\* getTime
getTime(tstamp) == IF tstamp = <<>> THEN <<>> ELSE <<[unix |-> tstamp[1]]>>

\* Mutant: the signer allowlist is not consulted.
composeVerified_noSigner(matched, valid, signerAllowed) == matched /\ valid

\* verified := mnfMatched && sigVerified && vo.Signers.Match(signerName)
composeVerified(matched, valid, signerAllowed) == matched /\ valid /\ signerAllowed

\* Mutant: the first candidate's diff is reported even after a match.
representativeDiff_always(matched, diffs) ==
    IF Len(diffs) > 0 THEN diffs[1] ELSE NilDiff

\* Mutant: the diff of the last candidate tried is reported.
representativeDiff_last(matched, diffs) ==
    IF ~matched /\ Len(diffs) > 0 THEN diffs[Len(diffs)] ELSE NilDiff

\* The representative diff chosen after the candidate loop.
representativeDiff(matched, diffs) ==
    IF ~matched /\ Len(diffs) > 0 THEN diffs[1] ELSE NilDiff

VerifyResourceResult(v, inScope, signer, signedTime, ref, d, images, provs) ==
    [Verified |-> v, InScope |-> inScope, Signer |-> signer, SignedTime |-> signedTime,
     SigRef |-> ref, Diff |-> d, ContainerImages |-> images, Provenances |-> provs]

\* &VerifyResourceResult{InScope: false}
skippedResult == VerifyResourceResult(FALSE, FALSE, "", <<>>, "", NilDiff, <<>>, <<>>)

(***************************************************************************)
(* State of one VerifyResource call.                                       *)
(***************************************************************************)
VARIABLES
    obj,                    \* the live object
    objBytes,               \* json.Marshal(obj.Object), its error dropped (line 188)
    vo,                     \* *VerifyResourceOption: <<>> or <<option>>
    pc,                     \* position in VerifyResource
    ignoreFields,
    numManifests,           \* len(resourceManifests)
    sigRef,
    i,                      \* candidates taken from resourceManifests so far
    candidate,              \* the candidate being matched
    mdiff,                  \* matchResourceWithManifest's local diff
    tier,                   \* what the tier run last for this candidate did
    masks,                  \* the masks each simulation tier applied for this candidate
    ret,                    \* what matchResourceWithManifest returned last
    diffsForAllCandidates,
    mnfMatched,
    diff,
    sigVerified,
    signerName,
    signedTimestamp,
    verified,
    containerImages,
    result,                 \* *VerifyResourceResult returned: nil, or a pointer to the result
    err,                    \* error returned
    calls,                  \* log of the calls to external collaborators
    failure,                \* the stage that failed and the length of calls then
    parseFailed,            \* the documents of this candidate that did not parse
    twin                    \* the same call with one of the three answers negated

vars ==
    <<obj, objBytes, vo, pc, ignoreFields, numManifests, sigRef, i, candidate, mdiff,
      tier, masks, ret, diffsForAllCandidates, mnfMatched, diff, sigVerified, signerName,
      signedTimestamp, verified, containerImages, result, err, calls, failure,
      parseFailed, twin>>

NoTier == [n |-> 0] @@ TierError("", <<>>)
NoMasks == [t \in {2, 3} |-> [ran |-> FALSE, obj |-> {}, sim |-> {}]]
NoReturn == [returned |-> FALSE, matched |-> FALSE, diff |-> NilDiff, err |-> ""]
NoFailure == [stage |-> "", at |-> 0]

\* The twin calls get the answers of this call, except that the answer named
\* is negated: whether a candidate matched, whether the signature is valid,
\* whether the allowlist accepts the signer.
NoTwin ==
    [verified |-> [w \in {"matched", "valid", "signer"} |-> FALSE],
     result |-> [w \in {"valid", "signer"} |-> <<>>]]

Init ==
    /\ obj \in Objects
    /\ objBytes \in {Bytes(obj), Garbage}
    /\ vo \in {NilOption} \cup {<<o>> : o \in Options}
    /\ pc = "start"
    /\ ignoreFields = {}
    /\ numManifests = 0
    /\ sigRef = ""
    /\ i = 0
    /\ candidate = Garbage
    /\ mdiff = NilDiff
    /\ tier = NoTier
    /\ masks = NoMasks
    /\ ret = NoReturn
    /\ diffsForAllCandidates = <<>>
    /\ mnfMatched = FALSE
    /\ diff = NilDiff
    /\ sigVerified = FALSE
    /\ signerName = ""
    /\ signedTimestamp = <<>>
    /\ verified = FALSE
    /\ containerImages = <<>>
    /\ result = <<>>
    /\ err = ""
    /\ calls = <<>>
    /\ failure = NoFailure
    /\ parseFailed = {}
    /\ twin = NoTwin

\* return nil, errors.Wrap(err, msg)
ReturnError(msg) ==
    /\ result' = <<>>
    /\ err' = msg
    /\ pc' = "done"

\* A runtime fault ends the call without a return value.
Panic ==
    /\ pc' = "panic"
    /\ UNCHANGED <<result, err>>

engineVars == <<candidate, mdiff, tier, masks, ret, parseFailed>>
loopVars == <<i, diffsForAllCandidates, mnfMatched>>
tailVars == <<diff, sigVerified, signerName, signedTimestamp, verified, containerImages>>

(***************************************************************************)
(* Lines 52-100: option defaults, skip check, ignore-field resolution.     *)
(* The image reference resolved in lines 61-81 is only an argument of the  *)
(* fetcher and is not part of the state.  The annotation keys that         *)
(* vo.SetAnnotationIgnoreFields adds to the ignore fields (line 92) are    *)
(* not among Paths, so ignoreFields is the resolved list restricted to     *)
(* Paths.                                                                  *)
(***************************************************************************)
\* Mutant: the skip selector's answer is inverted.
skipped_inverted(o, v) ==
    v # <<>> /\ v[1].SkipObjects # {} /\ ~SkipObjectsMatch(v[1].SkipObjects, o)

skipped(o, v) == v # <<>> /\ v[1].SkipObjects # {} /\ SkipObjectsMatch(v[1].SkipObjects, o)

\* Mutant: the ignore fields of the option are never resolved.
resolveIgnoreFields_empty(v) == {}

\* Lines 94-100: the ignore fields the option binds to this object.
resolveIgnoreFields(v) ==
    IF v # <<>> /\ IgnoreFieldsMatch(v[1].IgnoreFields).ok
    THEN IgnoreFieldsMatch(v[1].IgnoreFields).fields
    ELSE {}

Start ==
    /\ pc = "start"
    /\ IF skipped(obj, vo)
       THEN /\ result' = <<skippedResult>>
            /\ err' = ""
            /\ pc' = "done"
            /\ UNCHANGED ignoreFields
       ELSE /\ ignoreFields' = resolveIgnoreFields(vo)
            /\ pc' = "fetch"
            /\ UNCHANGED <<result, err>>
    /\ UNCHANGED <<obj, objBytes, vo, numManifests, sigRef, calls, failure>>
    /\ UNCHANGED <<engineVars, loopVars, tailVars, twin>>

(***************************************************************************)
(* Lines 102-107: fetch.  Evaluating vo.AnnotationConfig on a nil option   *)
(* faults before the fetcher is built.  vo.MaxResourceManifestNum caps the *)
(* number of candidates; MaxCandidates stands for it.                      *)
(***************************************************************************)
Fetch ==
    /\ pc = "fetch"
    /\ IF vo = <<>>
       THEN /\ Panic
            /\ UNCHANGED <<numManifests, sigRef, calls, failure>>
       ELSE /\ calls' = Append(calls, Call("Fetch", "", 0))
            /\ \/ /\ ReturnError("YAML manifest not found for this resource")
                  /\ failure' = [stage |-> "fetch", at |-> Len(calls')]
                  /\ UNCHANGED <<numManifests, sigRef>>
               \/ /\ numManifests' \in 0..MaxCandidates
                  /\ sigRef' \in SigRefs
                  /\ pc' = "loop"
                  /\ UNCHANGED <<result, err, failure>>
    /\ UNCHANGED <<obj, objBytes, vo, ignoreFields>>
    /\ UNCHANGED <<engineVars, loopVars, tailVars, twin>>

\* Mutant: the loop does not break at a match.
loopContinues_noBreak == i < numManifests

\* Mutant: the loop body runs once more than there are candidates.
loopContinues_offByOne == ~mnfMatched /\ i <= numManifests

\* Lines 112 and 120-122: the range loop has a next candidate and no break
\* was taken.
loopContinues == ~mnfMatched /\ i < numManifests

(***************************************************************************)
(* Lines 112-114: the loop takes the next candidate.  The content of a     *)
(* candidate is drawn when the loop reaches it; nothing reads it earlier.  *)
(***************************************************************************)
NextCandidate ==
    /\ pc = "loop"
    /\ loopContinues
    /\ i' = i + 1
    /\ candidate' \in ManifestsOf(obj)
    /\ mdiff' = NilDiff
    /\ tier' = NoTier
    /\ masks' = NoMasks
    /\ ret' = NoReturn
    /\ parseFailed' = {}
    /\ pc' = "tier1"
    /\ UNCHANGED <<obj, objBytes, vo, ignoreFields, numManifests, sigRef, calls, failure>>
    /\ UNCHANGED <<diffsForAllCandidates, mnfMatched, tailVars, result, err, twin>>

\* Mutant: an error of the matching engine is dropped and the loop goes on.
loopBody_swallow(out) ==
    /\ ret' = [returned |-> TRUE, matched |-> out.matched, diff |-> out.diff, err |-> out.err]
    /\ diffsForAllCandidates' = Append(diffsForAllCandidates, out.diff)
    /\ mnfMatched' = out.matched
    /\ pc' = "loop"
    /\ UNCHANGED <<result, err>>

\* Lines 115-123: what the loop does with the outcome of the matching engine.
loopBody(out) ==
    /\ ret' = [returned |-> TRUE, matched |-> out.matched, diff |-> out.diff, err |-> out.err]
    /\ IF out.err # ""
       THEN /\ ReturnError("error occurred during matching manifest")
            /\ UNCHANGED <<diffsForAllCandidates, mnfMatched>>
       ELSE /\ diffsForAllCandidates' = Append(diffsForAllCandidates, out.diff)
            /\ mnfMatched' = out.matched
            /\ pc' = "loop"
            /\ UNCHANGED <<result, err>>

EngineOut(matched, d, e) == [matched |-> matched, diff |-> d, err |-> e]

\* Mutant: a mismatch is reported as an error.
noMatchReturn_asError(d) == EngineOut(FALSE, NilDiff, "manifest does not match")

\* Line 243: no tier matched.
noMatchReturn(d) == EngineOut(FALSE, d, "")

\* Mutant: a match returns the diff left by the tier before.
matchReturn_carry(d) == EngineOut(TRUE, d, "")

\* Lines 203-205, 220-222, 238-240: a tier matched; d is the diff the
\* engine held before this tier.
matchReturn(d) == EngineOut(TRUE, NilDiff, "")

\* One tier of matchResourceWithManifest, given what the tier function
\* returned: an error is wrapped, a match returns, otherwise control goes on
\* to `next` (a later tier, or the final return of line 243).
tierStep(n, r, wrap, next) ==
    LET f == filterDiff(r, ignoreFields)
    IN  /\ tier' = [n |-> n] @@ r
        /\ calls' = calls \o r.calls
        /\ failure' = IF r.err # "" THEN [stage |-> "match", at |-> Len(calls')] ELSE failure
        /\ IF r.panic
           THEN /\ Panic
                /\ UNCHANGED <<mdiff, ret, diffsForAllCandidates, mnfMatched>>
           ELSE IF r.err # ""
           THEN /\ mdiff' = NilDiff
                /\ loopBody(EngineOut(FALSE, NilDiff, wrap))
           ELSE IF f.matched
           THEN /\ mdiff' = f.diff
                /\ loopBody(matchReturn(mdiff))
           ELSE IF next = "return"
           THEN /\ mdiff' = f.diff
                /\ loopBody(noMatchReturn(f.diff))
           ELSE /\ mdiff' = f.diff
                /\ pc' = next
                /\ UNCHANGED <<ret, diffsForAllCandidates, mnfMatched, result, err>>

\* The documents, of two handed to the parser one after the other, that did
\* not parse; the second is not looked at when the first fails.
unparsed(first, second) ==
    IF ~first[2].ok THEN {first[1]}
    ELSE IF ~second[2].ok THEN {second[1]} ELSE {}

\* Lines 190-205: CASE1, direct match.
Tier1 ==
    /\ pc = "tier1"
    /\ tierStep(1, directMatch(objBytes, candidate),
                "error occured during diract match", "tier2")
    /\ parseFailed' = unparsed(<<"object", objBytes>>, <<"candidate", candidate>>)
    /\ UNCHANGED <<obj, objBytes, vo, ignoreFields, numManifests, sigRef, i, candidate,
                   masks, tailVars, twin>>

\* Mutant: CASE3 runs whatever checkDryRunForApply says.
Tier2_alwaysApply ==
    /\ pc = "tier2"
    /\ \E sim \in Answers(BytesOf(obj)) :
         LET r == dryrunCreateMatch(objBytes, candidate, clusterScope(obj), isCRD(obj),
                     effectiveDryRunNamespace(obj, vo[1].DryRunNamespace), i, sim)
         IN  /\ tierStep(2, r, "error occured during dryrun create match", "tier3")
             /\ masks' = [masks EXCEPT ![2] = [ran |-> r.err = "", obj |-> r.objMask,
                                               sim |-> r.simMask]]
             /\ parseFailed' = IF ~sim.err /\ ~sim.bytes.ok THEN {"simulated"} ELSE {}
    /\ UNCHANGED <<obj, objBytes, vo, ignoreFields, numManifests, sigRef, i, candidate,
                   tailVars, twin>>

\* Lines 207-222: CASE2, dryrun create match; line 225 decides whether CASE3 runs.
Tier2 ==
    /\ pc = "tier2"
    /\ \E sim \in Answers(BytesOf(obj)) :
         LET r == dryrunCreateMatch(objBytes, candidate, clusterScope(obj), isCRD(obj),
                     effectiveDryRunNamespace(obj, vo[1].DryRunNamespace), i, sim)
         IN  /\ tierStep(2, r, "error occured during dryrun create match",
                         IF vo[1].CheckDryRunForApply THEN "tier3" ELSE "return")
             /\ masks' = [masks EXCEPT ![2] = [ran |-> r.err = "", obj |-> r.objMask,
                                               sim |-> r.simMask]]
             /\ parseFailed' = IF ~sim.err /\ ~sim.bytes.ok THEN {"simulated"} ELSE {}
    /\ UNCHANGED <<obj, objBytes, vo, ignoreFields, numManifests, sigRef, i, candidate,
                   tailVars, twin>>

\* Lines 224-243: CASE3, dryrun apply match.
Tier3 ==
    /\ pc = "tier3"
    /\ \E patch \in Answers({candidate, Garbage}) :
       \E sim \in IF patch.err THEN Answers({}) ELSE Answers(BytesOf(obj)) :
       \E nilNode \in IF patch.err \/ (patch.bytes.ok /\ (sim.err \/ sim.bytes.ok))
                      THEN {"empty"} ELSE NilNodeOutcomes :
         LET r == dryrunApplyMatch(objBytes, candidate, clusterScope(obj), isCRD(obj),
                     effectiveDryRunNamespace(obj, vo[1].DryRunNamespace), i,
                     patch, sim, nilNode)
         IN  /\ tierStep(3, r, "error occured during dryrun apply match", "return")
             /\ masks' = [masks EXCEPT ![3] = [ran |-> r.err = "" /\ ~r.panic,
                                               obj |-> r.objMask, sim |-> r.simMask]]
             /\ parseFailed' =
                  IF patch.err THEN {}
                  ELSE IF ~patch.bytes.ok THEN {"patched"}
                  ELSE IF ~sim.err /\ ~sim.bytes.ok THEN {"simulated"} ELSE {}
    /\ UNCHANGED <<obj, objBytes, vo, ignoreFields, numManifests, sigRef, i, candidate,
                   tailVars, twin>>

\* Mutant: the loop is left before the candidates are exhausted.
EndLoop_early ==
    /\ pc = "loop"
    /\ diff' = representativeDiff(mnfMatched, diffsForAllCandidates)
    /\ candidate' = Garbage
    /\ mdiff' = NilDiff
    /\ tier' = NoTier
    /\ masks' = NoMasks
    /\ ret' = NoReturn
    /\ parseFailed' = {}
    /\ pc' = "verify"
    /\ UNCHANGED <<obj, objBytes, vo, ignoreFields, numManifests, sigRef, calls, failure>>
    /\ UNCHANGED <<loopVars, result, err, twin>>
    /\ UNCHANGED <<sigVerified, signerName, signedTimestamp, verified, containerImages>>

\* Lines 124-126: the loop has ended; choose the representative diff.  The
\* locals of the last matchResourceWithManifest call are gone by now.
EndLoop ==
    /\ pc = "loop"
    /\ mnfMatched \/ i = numManifests
    /\ diff' = representativeDiff(mnfMatched, diffsForAllCandidates)
    /\ candidate' = Garbage
    /\ mdiff' = NilDiff
    /\ tier' = NoTier
    /\ masks' = NoMasks
    /\ ret' = NoReturn
    /\ parseFailed' = {}
    /\ pc' = "verify"
    /\ UNCHANGED <<obj, objBytes, vo, ignoreFields, numManifests, sigRef, calls, failure>>
    /\ UNCHANGED <<loopVars, result, err, twin>>
    /\ UNCHANGED <<sigVerified, signerName, signedTimestamp, verified, containerImages>>

\* Lines 128-140: the signature verifier is called and the verdict composed.
\* The key path of lines 128-131 is only an argument of the verifier.
VerifySignature ==
    /\ pc = "verify"
    /\ calls' = Append(calls, Call("Verify", "", 0))
    /\ \/ /\ ReturnError("failed to verify signature")
          /\ failure' = [stage |-> "verify", at |-> Len(calls')]
          /\ UNCHANGED <<sigVerified, signerName, signedTimestamp, verified, twin>>
       \/ \E a \in VerifyAnswers :
            /\ sigVerified' = a.valid
            /\ signerName' = a.signer
            /\ signedTimestamp' = a.ts
            /\ verified' = composeVerified(mnfMatched, a.valid,
                                           SignersMatch(vo[1].Signers, a.signer))
            /\ twin' = [twin EXCEPT !.verified =
                 [matched |-> composeVerified(~mnfMatched, a.valid,
                                              SignersMatch(vo[1].Signers, a.signer)),
                  valid |-> composeVerified(mnfMatched, ~a.valid,
                                            SignersMatch(vo[1].Signers, a.signer)),
                  signer |-> composeVerified(mnfMatched, a.valid,
                                             ~SignersMatch(vo[1].Signers, a.signer))]]
            /\ pc' = "images"
            /\ UNCHANGED <<result, err, failure>>
    /\ UNCHANGED <<obj, objBytes, vo, ignoreFields, numManifests, sigRef>>
    /\ UNCHANGED <<engineVars, loopVars, diff, containerImages>>

\* Lines 142-145: container images of the object.
GetAllImagesFromObject ==
    /\ pc = "images"
    /\ calls' = Append(calls, Call("GetAllImagesFromObject", "", 0))
    /\ \/ /\ ReturnError("failed to get container images")
          /\ failure' = [stage |-> "images", at |-> Len(calls')]
          /\ UNCHANGED containerImages
       \/ /\ containerImages' = <<"registry/app:v1">>
          /\ pc' = "provenance"
          /\ UNCHANGED <<result, err, failure>>
    /\ UNCHANGED <<obj, objBytes, vo, ignoreFields, numManifests, sigRef>>
    /\ UNCHANGED <<engineVars, loopVars, diff, sigVerified, signerName, signedTimestamp,
                   verified, twin>>

\* Lines 86 and 155: &VerifyResourceResult{...}, a pointer that is not nil.
AddressOf(x) == <<x>>

\* Mutant: the signer is reported only for a verified object.
composeVerdict_hideSigner(v, provenances) ==
    VerifyResourceResult(v, TRUE, IF v THEN signerName ELSE "", getTime(signedTimestamp),
                         sigRef, diff, containerImages, provenances)

\* The literal of lines 155-164, given the value of verified.
composeVerdict(v, provenances) ==
    VerifyResourceResult(v, TRUE, signerName, getTime(signedTimestamp), sigRef,
                         diff, containerImages, provenances)

\* The verdict built in lines 155-164.
verdict(provenances) == composeVerdict(verified, provenances)

\* The verdicts the twin calls build in lines 155-164.
twinVerdicts(provenances) ==
    [twin EXCEPT !.result =
        [w \in {"valid", "signer"} |-> AddressOf(composeVerdict(twin.verified[w], provenances))]]

\* Lines 147-165: provenance retrieval when requested, then the verdict is returned.
Return ==
    /\ pc = "provenance"
    /\ IF vo[1].Provenance
       THEN /\ calls' = Append(calls, Call("ProvenanceGet", "", 0))
            /\ \/ /\ ReturnError("failed to get provenance")
                  /\ failure' = [stage |-> "provenance", at |-> Len(calls')]
                  /\ UNCHANGED twin
               \/ /\ result' = AddressOf(verdict(<<"provenance">>))
                  /\ twin' = twinVerdicts(<<"provenance">>)
                  /\ err' = ""
                  /\ pc' = "done"
                  /\ UNCHANGED failure
       ELSE /\ result' = AddressOf(verdict(<<>>))
            /\ twin' = twinVerdicts(<<>>)
            /\ err' = ""
            /\ pc' = "done"
            /\ UNCHANGED <<calls, failure>>
    /\ UNCHANGED <<obj, objBytes, vo, ignoreFields, numManifests, sigRef>>
    /\ UNCHANGED <<engineVars, loopVars, tailVars>>

Next ==
    \/ Start
    \/ Fetch
    \/ NextCandidate
    \/ Tier1
    \/ Tier2
    \/ Tier3
    \/ EndLoop
    \/ VerifySignature
    \/ GetAllImagesFromObject
    \/ Return

Spec == Init /\ [][Next]_vars

(***************************************************************************)
(* Properties.                                                             *)
(***************************************************************************)
\* The call returned a verdict.
ReturnedVerdict == pc = "done" /\ result # <<>>

\* The skip selector is configured and selects the object's kind.
SkipConfigured == vo # <<>> /\ obj["kind"] \in vo[1].SkipObjects

\* The calls of the log made to the admission simulator.
SimulatorOps == {"DryRunCreate", "GetApplyPatchBytes"}
CallsOf(ops) == {k \in 1..Len(calls) : calls[k].op \in ops}

\* C1: in every verdict returned for an object that was not skipped, verified
\* is true exactly when a candidate matched, the verifier reported the
\* signature valid and the signer allowlist accepts the returned signer.
C1_VerifiedIsConjunction ==
    (ReturnedVerdict /\ ~SkipConfigured) =>
        (result[1].Verified <=>
            (mnfMatched /\ sigVerified /\ result[1].Signer \in vo[1].Signers))

\* C1 witness: a verdict with a match and a valid signature whose signer the
\* allowlist rejects.
C1_Witness ==
    /\ ReturnedVerdict /\ ~SkipConfigured
    /\ mnfMatched /\ sigVerified /\ result[1].Signer \notin vo[1].Signers
    /\ ~result[1].Verified

\* C2: when the skip selector matches, the call returns without error a
\* verdict with inScope false and every other field zero, and no call to the
\* manifest source, the signature verifier or the admission simulator is made.
C2_SkipShortCircuits ==
    SkipConfigured =>
        /\ calls = <<>>
        /\ pc \in {"start", "done"}
        /\ pc = "done" =>
             /\ err = ""
             /\ result = <<[Verified |-> FALSE, InScope |-> FALSE, Signer |-> "",
                            SignedTime |-> <<>>, SigRef |-> "", Diff |-> <<>>,
                            ContainerImages |-> <<>>, Provenances |-> <<>>]>>

\* C2 witness: a skipped call has returned.
C2_Witness == SkipConfigured /\ pc = "done" /\ result # <<>> /\ ~result[1].InScope

\* C3: if no candidate matched, the verdict's diff is the diff the matching
\* engine returned for the first candidate, however many were tried.
C3_FirstCandidateDiff ==
    /\ (pc = "loop" /\ ret.returned /\ ret.err = "") =>
          (Len(diffsForAllCandidates) = i /\ diffsForAllCandidates[i] = ret.diff)
    /\ (ReturnedVerdict /\ ~SkipConfigured /\ ~mnfMatched /\ Len(diffsForAllCandidates) > 0) =>
          result[1].Diff = diffsForAllCandidates[1]

\* C3 witness: two candidates failed with different diffs, the second one
\* smaller, and the verdict carries the first.
C3_Witness ==
    /\ ReturnedVerdict /\ ~mnfMatched
    /\ Len(diffsForAllCandidates) = 2
    /\ Cardinality(diffsForAllCandidates[2][1]) < Cardinality(diffsForAllCandidates[1][1])
    /\ result[1].Diff = diffsForAllCandidates[1]

\* The message each failing stage is wrapped with.
StageMessage ==
    [fetch |-> "YAML manifest not found for this resource",
     match |-> "error occurred during matching manifest",
     verify |-> "failed to verify signature",
     images |-> "failed to get container images",
     provenance |-> "failed to get provenance"]

\* C4: when a stage fails the call returns at once an error and no result,
\* and no collaborator is called after the failure.
C4_FailureAborts ==
    failure.stage # "" =>
        /\ pc = "done"
        /\ result = <<>>
        /\ err = StageMessage[failure.stage]
        /\ Len(calls) = failure.at

\* C4 witness: the admission simulator failed for the second candidate.
C4_Witness ==
    /\ failure.stage = "match" /\ i = 2
    /\ Len(calls) > 1 /\ calls[Len(calls)].op \in SimulatorOps
    /\ result = <<>> /\ err # ""

\* Something did fail in the stage an error message names.
StageFailed(msg) ==
    \E st \in DOMAIN StageMessage : msg = StageMessage[st] /\ failure.stage = st

\* C5: a manifest that does not match, an invalid signature and a rejected
\* signer are not errors: an error is returned only when a collaborator or a
\* parse failed, the engine reports a mismatch without error, and the verdict
\* then has verified false and inScope true.
C5_MismatchIsNotAnError ==
    /\ (pc = "done" /\ err # "") => StageFailed(err)
    /\ (ret.returned /\ failure.stage = "") => ret.err = ""
    /\ (ReturnedVerdict /\ ~SkipConfigured
          /\ ~(mnfMatched /\ sigVerified /\ result[1].Signer \in vo[1].Signers)) =>
          (err = "" /\ ~result[1].Verified /\ result[1].InScope)

\* C5 witness: nothing matched, the signature is invalid and the signer is
\* not allowed, and a verdict came back.
C5_Witness ==
    /\ ReturnedVerdict /\ err = ""
    /\ ~mnfMatched /\ Len(diffsForAllCandidates) > 0
    /\ ~sigVerified /\ result[1].Signer \notin vo[1].Signers
    /\ ~result[1].Verified /\ result[1].InScope

\* The paths at which two nodes differ.
RawDiff(a, b) == {p \in Paths : a[p] # b[p]}

\* The live object is namespaced.
Namespaced == obj["metadata.namespace"] # ""

\* C6: when the direct diff between the live object and a candidate is empty
\* after ignore-field filtering, the engine reports a match for that
\* candidate and calls the admission simulator for it not at all.
C6_DirectMatchSkipsSimulator ==
    (tier.n = 1 /\ objBytes.ok /\ candidate.ok
        /\ RawDiff(obj, candidate.node) \ vo[1].IgnoreFields = {}) =>
        /\ pc = "loop" /\ mnfMatched
        /\ ret.returned /\ ret.matched /\ ret.err = "" /\ ret.diff = <<>>
        /\ \A k \in CallsOf(SimulatorOps) : calls[k].cand # i

\* C6 witness: the second candidate differs from the live object only in an
\* ignored field and matches directly, after the first needed the simulator.
C6_Witness ==
    /\ tier.n = 1 /\ i = 2 /\ candidate.ok
    /\ RawDiff(obj, candidate.node) # {}
    /\ RawDiff(obj, candidate.node) \subseteq vo[1].IgnoreFields
    /\ ret.matched
    /\ CallsOf(SimulatorOps) # {}

\* C7: when no tier matches, the engine returns matched false with the
\* filtered diff of the last tier attempted, tier 3 when apply simulation is
\* enabled and tier 2 otherwise, and GetApplyPatchBytes is never called when
\* apply simulation is disabled.
C7_LastTierDiff ==
    /\ (ret.returned /\ ret.err = "" /\ ~ret.matched) =>
          /\ tier.n = (IF vo[1].CheckDryRunForApply THEN 3 ELSE 2)
          /\ ret.diff = <<RawDiff(tier.maskedObjNode, tier.maskedSimNode) \ vo[1].IgnoreFields>>
          /\ ret.diff # <<{}>>
    /\ (vo # <<>> /\ ~vo[1].CheckDryRunForApply) =>
          (pc # "tier3" /\ tier.n # 3 /\ CallsOf({"GetApplyPatchBytes"}) = {})

\* C7 witness: apply simulation is disabled, tiers 1 and 2 found differences
\* and the engine returned the diff of tier 2, which is not the direct diff.
C7_Witness ==
    /\ ret.returned /\ ~ret.matched /\ ret.err = ""
    /\ ~vo[1].CheckDryRunForApply /\ tier.n = 2
    /\ ret.diff # <<RawDiff(obj, candidate.node) \ vo[1].IgnoreFields>>
    /\ CallsOf({"DryRunCreate"}) # {}

\* Every field under spec.names that the documents carry.
SpecNamesPaths == CRDMaskPaths \cup {"spec.names.shortNames"}

\* The tier-2 comparison ran for a CustomResourceDefinition.
CRDTier2Ran == tier.n = 2 /\ tier.err = "" /\ obj["kind"] = "CustomResourceDefinition"

\* C8 as stated: a CustomResourceDefinition that differs from the simulated
\* object only in fields under spec.names, whichever they are, matches in
\* tier 2.
C8_AnySpecNamesField ==
    (CRDTier2Ran /\ RawDiff(tier.objNode, tier.simNode) \subseteq SpecNamesPaths) =>
        (ret.returned /\ ret.matched)

\* C8 amended: a CustomResourceDefinition that differs from the simulated
\* object only in spec.names.kind, listKind, singular or plural matches in
\* tier 2.
C8_MaskedSpecNamesFields ==
    (CRDTier2Ran /\ RawDiff(tier.objNode, tier.simNode) \subseteq
        {"spec.names.kind", "spec.names.listKind", "spec.names.singular", "spec.names.plural"}) =>
        (ret.returned /\ ret.matched /\ ret.diff = <<>> /\ mnfMatched)

\* C8 witness: tier 2 matched a CustomResourceDefinition whose spec.names.plural
\* differs from the simulated object's.
C8_Witness ==
    /\ CRDTier2Ran
    /\ RawDiff(tier.objNode, tier.simNode) = {"spec.names.plural"}
    /\ ret.matched

\* C9: for a namespaced object tiers 2 and 3 mask metadata.namespace on the
\* live and on the simulated object; in each tier both sides get the same
\* mask set, and tier 3 uses the mask set of tier 2.
C9_NamespaceMasked ==
    /\ \A t \in {2, 3} :
         masks[t].ran =>
            /\ masks[t].obj = masks[t].sim
            /\ Namespaced => "metadata.namespace" \in masks[t].obj
    /\ (masks[2].ran /\ masks[3].ran) => masks[3].obj = masks[2].obj
    /\ (tier.n \in {2, 3} /\ tier.err = "" /\ ~tier.panic /\ Namespaced) =>
          /\ tier.maskedObjNode["metadata.namespace"] = Absent
          /\ tier.maskedSimNode["metadata.namespace"] = Absent
          /\ tier.diff # <<>> => "metadata.namespace" \notin tier.diff[1]

\* C9 witness: with a dry-run namespace override, tier 3 compared a
\* namespaced object with a simulated object in another namespace, and
\* matched.
C9_Witness ==
    /\ masks[2].ran /\ masks[3].ran /\ tier.n = 3
    /\ Namespaced /\ vo[1].DryRunNamespace # ""
    /\ tier.simNode["metadata.namespace"] # obj["metadata.namespace"]
    /\ ret.matched

VerifyCalls == CallsOf({"Verify"})

\* C10: in a call that is not skipped and whose fetch and matching raise no
\* error, the signature verifier is called exactly once, after the fetch and
\* the candidate loop and before image extraction and provenance retrieval.
C10_VerifierOnceAfterLoop ==
    /\ Cardinality(VerifyCalls) <= 1
    /\ pc \in {"start", "fetch", "loop", "tier1", "tier2", "tier3", "verify", "panic"} =>
          VerifyCalls = {}
    /\ (pc \in {"images", "provenance"}
          \/ (pc = "done" /\ ~SkipConfigured /\ failure.stage \notin {"fetch", "match"})) =>
          Cardinality(VerifyCalls) = 1
    /\ \A k \in VerifyCalls :
          /\ mnfMatched \/ i = numManifests
          /\ Len(diffsForAllCandidates) = i
          /\ k > 1 /\ calls[1].op = "Fetch"
          /\ \A j \in 1..(k - 1) : calls[j].op \in {"Fetch"} \cup SimulatorOps
          /\ \A j \in (k + 1)..Len(calls) :
                calls[j].op \in {"GetAllImagesFromObject", "ProvenanceGet"}

\* C10 witness: two candidates were tried and none matched, the verifier was
\* called once and the provenance getter after it.
C10_Witness ==
    /\ ReturnedVerdict /\ ~mnfMatched /\ i = 2
    /\ Cardinality(VerifyCalls) = 1
    /\ calls[Len(calls)].op = "ProvenanceGet"

\* The fields of a verdict other than verified.
Reported(v) ==
    [Signer |-> v.Signer, SignedTime |-> v.SignedTime, SigRef |-> v.SigRef,
     Diff |-> v.Diff, ContainerImages |-> v.ContainerImages,
     Provenances |-> v.Provenances, InScope |-> v.InScope]

\* C11: when a call returns a verified verdict, the same call with exactly
\* one of the answers manifest matched, signature valid, signer allowed
\* changed to false computes verified false, and the verdicts of the calls
\* that differ only in the signature-valid answer or only in the allowlist
\* answer equal this verdict in signer, signed time, signature reference,
\* diff, container images and provenances.
C11_OneAnswerFlipsOnlyVerified ==
    (ReturnedVerdict /\ ~SkipConfigured) =>
        /\ \A w \in {"valid", "signer"} :
              /\ twin.result[w] # <<>>
              /\ Reported(twin.result[w][1]) = Reported(result[1])
              /\ twin.result[w][1].Verified = twin.verified[w]
        /\ result[1].Verified =>
              \A w \in {"matched", "valid", "signer"} : ~twin.verified[w]

\* C11 witness: a verified verdict naming its signer, whose twin with the
\* allowlist answer negated is not verified and names the same signer.
C11_Witness ==
    /\ ReturnedVerdict /\ result[1].Verified
    /\ result[1].Signer = "alice" /\ result[1].SignedTime # <<>>
    /\ ~twin.result["signer"][1].Verified
    /\ twin.result["signer"][1].Signer = "alice"

TierPcs == {"tier1", "tier2", "tier3"}

\* The candidates of the list for which the admission simulator was called.
SimulatedCandidates == {calls[k].cand : k \in CallsOf(SimulatorOps)}

\* The state of the candidate loop: the candidate in the engine is the next
\* of the list, every candidate before it was tried and did not match, and
\* after a match no candidate is in the engine and none after the matching
\* one reached the simulator.
CandidatesInOrder ==
    /\ pc \in TierPcs =>
          /\ ~mnfMatched
          /\ i \in 1..numManifests
          /\ Len(diffsForAllCandidates) = i - 1
          /\ \A j \in 1..(i - 1) : diffsForAllCandidates[j] # NilDiff
    /\ mnfMatched =>
          /\ pc \notin TierPcs
          /\ Len(diffsForAllCandidates) = i
          /\ \A j \in 1..(i - 1) : diffsForAllCandidates[j] # NilDiff
    /\ \A c \in SimulatedCandidates : c \in 1..i
    /\ \A k \in CallsOf(SimulatorOps) : \A j \in CallsOf(SimulatorOps) :
          j < k => calls[j].cand <= calls[k].cand

\* C12: candidates enter the matching engine one at a time in list order,
\* candidate i only after every candidate before it was tried and did not
\* match, and after the first match no further candidate enters the engine
\* and no further simulator call is made.
C12_InOrderStopAtFirstMatch ==
    /\ []CandidatesInOrder
    /\ [][/\ i' # i => (i' = i + 1 /\ ~mnfMatched /\ pc' = "tier1")
          /\ pc' = "tier1" => i' = i + 1
          /\ mnfMatched => (mnfMatched' /\ i' = i
                              /\ CallsOf(SimulatorOps)' = CallsOf(SimulatorOps))]_vars

\* C12 witness: the first of two candidates matched through the simulator,
\* the call returned and the second candidate never reached the engine.
C12_Witness ==
    /\ ReturnedVerdict /\ mnfMatched
    /\ numManifests = 2 /\ i = 1
    /\ SimulatedCandidates = {1}

\* The matching engine returned to the loop without error.
EngineReturned == ret.returned /\ ret.err = ""

\* C13: every outcome the matching engine returns without error has an
\* absent diff when matched is true, at whichever tier the match was found,
\* and the loop records that absent diff for the candidate.
C13_MatchedHasNoDiff ==
    (EngineReturned /\ ret.matched) =>
        /\ ret.diff = NilDiff
        /\ diffsForAllCandidates[i] = NilDiff

\* C13 witness: the engine reported a match found by the third tier, after
\* the first two tiers had each produced a diff.
C13_Witness ==
    /\ EngineReturned /\ ret.matched /\ tier.n = 3
    /\ masks[2].ran
    /\ ret.diff = NilDiff

\* C14: whenever a document handed to the parser by a tier did not parse
\* (the live object, the candidate, the simulated object or the patched
\* result), the matching engine returns a matching error with no outcome
\* and VerifyResource returns that error and no verdict.
C14_ParseFailureIsMatchingError ==
    parseFailed # {} =>
        /\ ret.returned /\ ret.err # "" /\ ~ret.matched /\ ret.diff = NilDiff
        /\ pc = "done" /\ result = <<>>
        /\ err = "error occurred during matching manifest"

DryRunCreates == CallsOf({"DryRunCreate"})

\* The namespace a dry-run create targets according to lines 172-179 and
\* 271-277: none for a cluster-scoped object, else the override, else the
\* fixed default.
DryRunTarget ==
    IF ~Namespaced THEN ""
    ELSE IF vo[1].DryRunNamespace # "" THEN vo[1].DryRunNamespace
    ELSE defaultDryRunNamespace

\* C15 as stated: every dry-run create of tier 2 or tier 3 targets the
\* empty namespace for a cluster-scoped object, else the override if given
\* and "default" otherwise, and never the namespace of the object.
C15_NeverOwnNamespace ==
    \A k \in DryRunCreates :
        /\ calls[k].ns = DryRunTarget
        /\ Namespaced => calls[k].ns # obj["metadata.namespace"]

\* C15: every dry-run create of tier 2 or tier 3 targets the empty
\* namespace for a cluster-scoped object even with an override set, else
\* the override if given and "default" otherwise; the target equals the
\* namespace of the object only when the object lives in the override
\* namespace or, without an override, in "default".
C15_DryRunTarget ==
    \A k \in DryRunCreates :
        /\ calls[k].ns = DryRunTarget
        /\ (Namespaced /\ calls[k].ns = obj["metadata.namespace"]) =>
              obj["metadata.namespace"] =
                 (IF vo[1].DryRunNamespace # "" THEN vo[1].DryRunNamespace
                  ELSE defaultDryRunNamespace)

\* C15 witness: with an override set, tier 2 and tier 3 each issued a
\* dry-run create for a cluster-scoped object, both in the empty namespace.
C15_Witness ==
    /\ ~Namespaced /\ vo # <<>> /\ vo[1].DryRunNamespace = "sandbox"
    /\ Cardinality(DryRunCreates) = 2
    /\ \A k \in DryRunCreates : calls[k].ns = ""

\* The ignore fields the option configures for the object.
ConfiguredIgnoreFields == IF vo = <<>> THEN {} ELSE vo[1].IgnoreFields

\* A diff with no entry at an ignored path.
Unignored(d) == d # NilDiff => d[1] \cap ConfiguredIgnoreFields = {}

\* The tier that ran last returned a diff without error.
TierDiffed == tier.n \in 1..3 /\ tier.err = "" /\ ~tier.panic /\ tier.diff # NilDiff

\* C16: the ignore fields are removed from each tier's diff before the
\* empty-check: a tier whose diff has entries at ignored paths only reports
\* a match, the diff the engine keeps after a tier is the tier's diff
\* without the ignored paths, and no diff recorded for a candidate or
\* carried by the returned verdict has an entry at an ignored path.
C16_IgnoreFilterBeforeEmptyCheck ==
    /\ TierDiffed =>
          /\ tier.diff[1] \subseteq ConfiguredIgnoreFields =>
                (ret.returned /\ ret.matched /\ ret.err = "" /\ mnfMatched)
          /\ ~(tier.diff[1] \subseteq ConfiguredIgnoreFields) =>
                mdiff = <<tier.diff[1] \ ConfiguredIgnoreFields>>
    /\ Unignored(mdiff) /\ Unignored(ret.diff) /\ Unignored(diff)
    /\ \A j \in 1..Len(diffsForAllCandidates) : Unignored(diffsForAllCandidates[j])
    /\ (ReturnedVerdict /\ ~SkipConfigured) => Unignored(result[1].Diff)

\* C16 witness: a simulation tier returned a diff whose only entry is at an
\* ignored path, and the engine reported a match.
C16_Witness ==
    /\ TierDiffed /\ tier.n = 2
    /\ ConfiguredIgnoreFields = {"data.a"} /\ tier.diff = <<{"data.a"}>>
    /\ ret.returned /\ ret.matched

\* C17: a call with an absent option resolves an empty ignore-field list,
\* reaches the fetch, and ends in a verdict or a wrapped stage error; it
\* never faults.
C17_NilOptionCompletes ==
    vo = NilOption =>
        /\ pc # "panic"
        /\ ignoreFields = {}
        /\ pc \notin {"start", "fetch"} => (calls # <<>> /\ calls[1].op = "Fetch")
        /\ pc = "done" => (result # <<>> \/ err # "")

\* C18: in every verdict returned for an object that was not skipped the
\* diff is present only if no candidate matched: it is absent when verified
\* is true and when some candidate matched, whatever diffs earlier
\* candidates produced, and it is present and non-empty when at least one
\* candidate was tried and none matched.
C18_DiffOnlyWithoutMatch ==
    (ReturnedVerdict /\ ~SkipConfigured) =>
        /\ result[1].Verified => result[1].Diff = NilDiff
        /\ mnfMatched => result[1].Diff = NilDiff
        /\ result[1].Diff # NilDiff => (~mnfMatched /\ i >= 1)
        /\ (~mnfMatched /\ i >= 1) =>
              (result[1].Diff # NilDiff /\ Size(result[1].Diff) > 0)

\* C18 witness: the second candidate matched after the first produced a
\* non-empty diff, and the verified verdict carries no diff.
C18_Witness ==
    /\ ReturnedVerdict /\ mnfMatched /\ i = 2
    /\ diffsForAllCandidates[1] # NilDiff /\ Size(diffsForAllCandidates[1]) > 0
    /\ result[1].Verified /\ result[1].Diff = NilDiff

\* The fetch returned, without error, an empty list of candidates.
EmptyFetch ==
    /\ pc \notin {"start", "fetch", "panic"}
    /\ ~SkipConfigured
    /\ failure.stage # "fetch"
    /\ numManifests = 0

\* C19: when the fetch succeeds with an empty candidate list, no candidate
\* enters the matching engine and the admission simulator is never called;
\* the signature verifier is called once before the call goes on, and the
\* returned verdict has verified false, inScope true and no diff, whatever
\* the verifier answered.
C19_EmptyCandidateList ==
    EmptyFetch =>
        /\ pc \notin TierPcs /\ i = 0 /\ ~ret.returned /\ tier.n = 0
        /\ diffsForAllCandidates = <<>> /\ ~mnfMatched
        /\ CallsOf(SimulatorOps) = {}
        /\ pc \notin {"loop", "verify"} => Cardinality(VerifyCalls) = 1
        /\ ReturnedVerdict =>
              /\ ~result[1].Verified
              /\ result[1].InScope
              /\ result[1].Diff = NilDiff

\* C19 witness: with an empty candidate list the verifier reported a valid
\* signature of an allowed signer, and the returned verdict is not verified.
C19_Witness ==
    /\ EmptyFetch /\ ReturnedVerdict
    /\ sigVerified /\ result[1].Signer \in vo[1].Signers
    /\ ~result[1].Verified /\ result[1].InScope
    /\ Cardinality(VerifyCalls) = 1

\* A simulation tier compared the live object with a simulated object.
SimulationTierCompared(n) ==
    /\ tier.n = n /\ tier.err = "" /\ ~tier.panic
    /\ parseFailed = {}

\* Live objects that differ from obj in metadata.name only, and namespaced
\* objects that differ from a namespaced obj in metadata.namespace only.
Renamed == {[obj EXCEPT !["metadata.name"] = v] : v \in {"b", "c"}}
Moved ==
    IF Namespaced THEN {[obj EXCEPT !["metadata.namespace"] = v] : v \in {"ns2", "ns3"}}
    ELSE {}

\* The simulator's answer of the tier that ran last, and the patch answer of
\* a tier 3 that went on to the dry-run create.
SameSimulated == [err |-> FALSE, bytes |-> Bytes(tier.simNode)]
SamePatched == [err |-> FALSE, bytes |-> candidate]

\* Tier 2 and tier 3 run for another live object against the same candidate
\* and the same simulated object.
Tier2For(o) ==
    dryrunCreateMatch(Bytes(o), candidate, clusterScope(o), isCRD(o),
                      effectiveDryRunNamespace(o, vo[1].DryRunNamespace), i, SameSimulated)
Tier3For(o) ==
    dryrunApplyMatch(Bytes(o), candidate, clusterScope(o), isCRD(o),
                     effectiveDryRunNamespace(o, vo[1].DryRunNamespace), i,
                     SamePatched, SameSimulated, "empty")

\* Two tier returns with the same matched/diff result, before and after the
\* ignore filter.
SameOutcome(r1, r2) ==
    /\ r1.err = r2.err /\ r1.matched = r2.matched /\ r1.diff = r2.diff
    /\ filterDiff(r1, ignoreFields) = filterDiff(r2, ignoreFields)

\* C20: the outcome of tier 2 and of tier 3 is the same for every live
\* object that differs from the given one in metadata.name only, and the
\* outcome of tier 2 is the same for every namespaced object that differs
\* from a namespaced one in the value of metadata.namespace only, against
\* the same candidate and the same simulated object.
C20_NameDoesNotDecide ==
    /\ SimulationTierCompared(2) =>
          \A o \in Renamed \cup Moved : SameOutcome(Tier2For(o), tier)
    /\ SimulationTierCompared(3) =>
          \A o \in Renamed : SameOutcome(Tier3For(o), tier)

\* C20 witness: tier 2 reported a match for a live object whose name
\* differs from the candidate's name and from the simulated object's name.
C20_Witness ==
    /\ SimulationTierCompared(2) /\ tier.matched /\ ret.matched
    /\ candidate.node["metadata.name"] # obj["metadata.name"]
    /\ tier.simNode["metadata.name"] # obj["metadata.name"]

=============================================================================
